---- MODULE Spec2Model ----
(***************************************************************************)
(* Model of the request engine of soundcharts/api_util.py:                 *)
(*   - request_wrapper_async : one HTTP request with retries (SpecExec)     *)
(*   - request_looper_async  : the paginating collector     (SpecCollect)   *)
(*   - request_wrapper, request_looper, _run_blocking and the query built   *)
(*     by request_wrapper_async : the blocking facade       (SpecFacade)    *)
(* SpecCollectFar and SpecCollectFair are the collector started from other  *)
(* sets of calls; SpecSession is one call of either asynchronous function.  *)
(***************************************************************************)
EXTENDS Integers, Sequences, FiniteSets, TLC

\* ------------------------------------------------------------------------
\* Bounds of the model
\* ------------------------------------------------------------------------
MaxRetriesBound == 2
MaxReset == 1

\* ------------------------------------------------------------------------
\* Program constants
\* ------------------------------------------------------------------------
RETRY_DELAY == 10
WARNING == 30
ERROR == 40
CRITICAL == 50

ExceptionLevels == {WARNING, ERROR, CRITICAL}

\* ------------------------------------------------------------------------
\* State of one request_wrapper_async call
\* ------------------------------------------------------------------------
VARIABLES
    EXCEPTION_LOG_LEVEL, \* global severity threshold set by setup()
    max_retries,         \* argument max_retries (after defaulting)
    retry_delay,         \* argument retry_delay (after defaulting)
    method,              \* argument method: "None" or an override string
    body,                \* argument body: "None", "empty" ({}), "payload"
    session_given,       \* TRUE when the caller passed a session
    epc,                 \* position: "start", "attempt", "sleep", "done"
    method_name,         \* local method_name ("unset" before line 114)
    owns_session,        \* local owns_session
    session_state,       \* "absent", "open", "closed"
    attempt,             \* loop variable of line 132
    exchanges,           \* number of session.request exchanges performed
    sleep_for,           \* delay of the asyncio.sleep being awaited
    sleeps,              \* delays of the sleeps completed so far
    last,                \* the response (or failure) of the latest exchange
    all_transient,       \* every exchange so far got 502/503/504 or a rate-limit 429
    outcome,             \* "none", "return", "raise"
    error,               \* "none", "ValueError", "RuntimeError"
    retval               \* returned value

evars == <<EXCEPTION_LOG_LEVEL, max_retries, retry_delay, method, body,
           session_given, epc, method_name, owns_session, session_state,
           attempt, exchanges, sleep_for, sleeps, last, all_transient,
           outcome, error, retval>>

\* ------------------------------------------------------------------------
\* State of one request_looper_async call
\* ------------------------------------------------------------------------
VARIABLES
    raw_limit,             \* params["limit"] of the caller: {} (None) or {n}
    caller_offset,         \* params["offset"] of the caller
    total,                 \* size of the remote collection at the first request
    drift,                 \* growth of the remote collection after the first page
    PARALLEL_REQUESTS,     \* global set by setup(parallel_requests=...)
    max_parallel_requests, \* argument max_parallel_requests
    cpc,                   \* position: "start", "first", "merge", "gather", "done"
    c_session,             \* the session of line 288: "absent", "open", "closed"
    dispatched,            \* params of the requests handed to request_wrapper_async
    items,                 \* local items, as runs <<lo, hi>> of record positions
    first_response,        \* what line 291 gave: "none" while it is awaited
    first_page,            \* local first_page
    total_server,          \* local total_server
    tasks,                 \* the page tasks of line 358, in creation order
    completed,             \* finished tasks not yet yielded by as_completed
    consumed,              \* number of tasks yielded by as_completed so far
    yielded,               \* the tasks yielded by as_completed, in order
    last_page_offset,      \* local last_page_offset
    last_page_block,       \* local last_page_block
    any_failure,           \* some request of the call did not give a page of items
    c_outcome,             \* "none", "return", "raise"
    results,               \* the returned value
    caller_params,         \* the mapping object the caller passed as params
    params,                \* local params: the mapping the requests are built from
    sessions_used          \* the session arguments given to request_wrapper_async

\* what the caller and the environment fix for the whole call
cinputs == <<raw_limit, caller_offset, total, drift, PARALLEL_REQUESTS,
             max_parallel_requests>>

cvars == <<cinputs, cpc, c_session, dispatched, items, first_response, first_page,
           total_server, tasks, completed, consumed, yielded,
           last_page_offset, last_page_block, any_failure, c_outcome,
           results, caller_params, params, sessions_used>>

\* ------------------------------------------------------------------------
\* State of one call of the blocking facade (request_wrapper, request_looper)
\* ------------------------------------------------------------------------
VARIABLES
    entry,        \* the facade called: "request_wrapper" or "request_looper"
    context,      \* "no_loop", or "in_loop" when an event loop is running
    raw_params,   \* argument params: a value for every key
    fpc,          \* position: "idle", "call", "run", "built", "ended", "done"
    coro,         \* the coroutine object: "created", "running", "finished"
    sent_params,  \* local params of lines 101-109: {} before they are built
    coro_result,  \* how the coroutine ended
    f_result      \* how the facade call ended

qvars == <<entry, context, raw_params, fpc, coro, sent_params, coro_result,
           f_result>>

vars == <<evars, cvars, qvars>>

\* ------------------------------------------------------------------------
\* Inputs
\* ------------------------------------------------------------------------
Methods == {"None", "delete", "DELETE", "GET", "PUT"}
Bodies == {"None", "empty", "payload"}
TextBodies == {"b1", "b2"}

None == [kind |-> "none", body |-> "none"]
NoResponse == [kind |-> "nothing", status |-> 0, json |-> FALSE,
               ratemsg |-> FALSE, has_reset |-> FALSE, reset |-> 0,
               text |-> "none"]

\* The responses one exchange can produce: an HTTP response, or a network
\* failure (aiohttp.ClientError / asyncio.TimeoutError) with status 0.
HttpResponse(st, js, rm, hr, rs, tx) ==
    [kind |-> "http", status |-> st, json |-> js, ratemsg |-> rm,
     has_reset |-> hr, reset |-> rs, text |-> tx]

Responses ==
    {HttpResponse(200, js, FALSE, FALSE, 0, tx) : js \in BOOLEAN, tx \in TextBodies}
    \cup {HttpResponse(st, TRUE, FALSE, FALSE, 0, "b1") :
            st \in {404, 502, 503, 504, 401, 403, 429, 500, 400}}
    \cup {HttpResponse(429, TRUE, TRUE, FALSE, 0, "b1")}
    \cup {HttpResponse(429, TRUE, TRUE, TRUE, rs, "b1") : rs \in 0..MaxReset}
    \cup {HttpResponse(403, TRUE, TRUE, FALSE, 0, "b1")}
    \cup {[NoResponse EXCEPT !.kind = "neterr"]}

\* ------------------------------------------------------------------------
\* Pure helpers of request_wrapper_async
\* ------------------------------------------------------------------------
\* str.lower() on the override values the model draws
Lower(m) == IF m = "DELETE" THEN "delete"
            ELSE IF m = "GET" THEN "get"
            ELSE IF m = "PUT" THEN "put"
            ELSE m

\* truthiness of the body argument (lines 111, 115)
Truthy(b) == b = "payload"

\* a variant that lets GET through as an override
MethodNameLenient(m, b) ==
    IF m = "None" THEN (IF Truthy(b) THEN "POST" ELSE "GET")
    ELSE IF Lower(m) = "delete" THEN "DELETE"
    ELSE IF Lower(m) = "get" THEN "GET"
    ELSE "invalid"

\* lines 114-119: the method, or "invalid" where the code raises ValueError
MethodName(m, b) ==
    IF m = "None" THEN (IF Truthy(b) THEN "POST" ELSE "GET")
    ELSE IF Lower(m) = "delete" THEN "DELETE"
    ELSE "invalid"

\* a variant with one iteration too many
AttemptsOneMore(mr) == mr + 2

\* line 130
Attempts(mr) == mr + 1

\* lines 192, 210, 239: no attempt is left
Exhausted(a, n) == a >= n

\* lines 187-191
IsTransientStatus(st) == st \in {502, 503, 504}

\* lines 201-205
IsAuthStatus(st) == st \in {429, 403, 401}

\* a variant that looks at the message only
IsRateLimitedAnyStatus(r) == r.ratemsg

\* lines 206-209
IsRateLimited(r) == r.status = 429 /\ r.ratemsg

\* a variant that compares the wrong severity
NotFoundRaisesAsError == ERROR >= EXCEPTION_LOG_LEVEL

\* line 182
NotFoundRaises == WARNING >= EXCEPTION_LOG_LEVEL

\* line 225
AuthRaises == ERROR >= EXCEPTION_LOG_LEVEL

\* line 234
UnknownRaises == ERROR >= EXCEPTION_LOG_LEVEL

\* a variant that applies the threshold to the last network failure
NetworkExhaustedRaisesByLevel == ERROR >= EXCEPTION_LOG_LEVEL

\* lines 239-242: the last network failure raises unconditionally
NetworkExhaustedRaises == TRUE

\* a variant that raises whatever the threshold
FinalRaisesAlways == TRUE

\* line 249
FinalRaises == ERROR >= EXCEPTION_LOG_LEVEL

\* a variant that gives up when decoding fails
OkResultJsonOnly(r) == IF r.json THEN [kind |-> "json", body |-> r.text]
                       ELSE [kind |-> "none", body |-> "none"]

\* lines 161-165: decoded JSON, or the raw text when decoding fails
OkResult(r) == IF r.json THEN [kind |-> "json", body |-> r.text]
               ELSE [kind |-> "text", body |-> r.text]

\* a delay that ignores the reset hint of the response
RateLimitDelayConfigured(r) == retry_delay

\* lines 212-214
RateLimitDelay(r) == (IF r.has_reset THEN r.reset ELSE 0) + 1

\* line 198, 243
RetryDelay == retry_delay

\* a finally clause that closes whatever session the call used
SessionAfterClosed == "closed"

\* lines 254-256
SessionAfter == IF owns_session THEN "closed" ELSE session_state

TransientSoFar(r) ==
    all_transient /\ r.kind = "http"
    /\ (IsTransientStatus(r.status) \/ IsRateLimited(r))

\* ------------------------------------------------------------------------
\* Steps of request_wrapper_async
\* ------------------------------------------------------------------------
ExecInit ==
    /\ EXCEPTION_LOG_LEVEL \in ExceptionLevels
    /\ max_retries \in 0..MaxRetriesBound
    /\ retry_delay = RETRY_DELAY
    /\ method \in Methods
    /\ body \in Bodies
    /\ session_given \in BOOLEAN
    /\ epc = "start"
    /\ method_name = "unset"
    /\ owns_session = FALSE
    /\ session_state = IF session_given THEN "open" ELSE "absent"
    /\ attempt = 0
    /\ exchanges = 0
    /\ sleep_for = 0
    /\ sleeps = <<>>
    /\ last = NoResponse
    /\ all_transient = TRUE
    /\ outcome = "none"
    /\ error = "none"
    /\ retval = None

Finish(how, err, val) ==
    /\ epc' = "done"
    /\ outcome' = how
    /\ error' = err
    /\ retval' = val
    /\ session_state' = SessionAfter
    /\ sleep_for' = 0

\* lines 245-252, reached by break or by the end of the for loop
FinishFinal ==
    IF FinalRaises THEN Finish("raise", "RuntimeError", None)
    ELSE Finish("return", "none", None)

\* lines 198, 219, 243: await asyncio.sleep(d)
GoSleep(d) ==
    /\ epc' = "sleep"
    /\ sleep_for' = d
    /\ UNCHANGED <<outcome, error, retval, session_state>>

\* lines 90-130: argument handling up to the first iteration
ExecStart ==
    /\ epc = "start"
    /\ method_name' = MethodName(method, body)
    /\ IF MethodName(method, body) = "invalid"
       THEN /\ epc' = "done"
            /\ outcome' = "raise"
            /\ error' = "ValueError"
            /\ UNCHANGED <<owns_session, session_state, attempt>>
       ELSE /\ owns_session' = ~session_given
            /\ session_state' = "open"
            /\ attempt' = 1
            /\ epc' = "attempt"
            /\ UNCHANGED <<outcome, error>>
    /\ UNCHANGED <<EXCEPTION_LOG_LEVEL, max_retries, retry_delay, method, body,
                   session_given, exchanges, sleep_for, sleeps, last,
                   all_transient, retval>>
    /\ UNCHANGED <<cvars, qvars>>

\* what every exchange does before the status is looked at (lines 143-151)
Exchange(r) ==
    /\ epc = "attempt"
    /\ attempt <= Attempts(max_retries)
    /\ exchanges' = exchanges + 1
    /\ last' = r
    /\ all_transient' = TransientSoFar(r)
    /\ UNCHANGED <<EXCEPTION_LOG_LEVEL, max_retries, retry_delay, method, body,
                   session_given, method_name, owns_session, sleeps>>
    /\ UNCHANGED <<cvars, qvars>>

\* lines 161-165
ExecOk ==
    \E r \in Responses :
        /\ r.kind = "http" /\ r.status = 200
        /\ Exchange(r)
        /\ Finish("return", "none", OkResult(r))
        /\ UNCHANGED attempt

\* lines 178-184
ExecNotFound ==
    \E r \in Responses :
        /\ r.kind = "http" /\ r.status = 404
        /\ Exchange(r)
        /\ IF NotFoundRaises THEN Finish("raise", "RuntimeError", None)
           ELSE Finish("return", "none", None)
        /\ UNCHANGED attempt

\* lines 186-198
ExecTransient ==
    \E r \in Responses :
        /\ r.kind = "http" /\ IsTransientStatus(r.status)
        /\ Exchange(r)
        /\ IF Exhausted(attempt, Attempts(max_retries))
           THEN FinishFinal
           ELSE GoSleep(RetryDelay)
        /\ UNCHANGED attempt

\* lines 200-219
ExecRateLimited ==
    \E r \in Responses :
        /\ r.kind = "http" /\ ~IsTransientStatus(r.status) /\ r.status # 404
        /\ r.status # 200
        /\ IsAuthStatus(r.status) /\ IsRateLimited(r)
        /\ Exchange(r)
        /\ IF Exhausted(attempt, Attempts(max_retries))
           THEN FinishFinal
           ELSE GoSleep(RateLimitDelay(r))
        /\ UNCHANGED attempt

\* lines 200-205, 220-227
ExecAuth ==
    \E r \in Responses :
        /\ r.kind = "http" /\ ~IsTransientStatus(r.status) /\ r.status # 404
        /\ r.status # 200
        /\ IsAuthStatus(r.status) /\ ~IsRateLimited(r)
        /\ Exchange(r)
        /\ IF AuthRaises THEN Finish("raise", "RuntimeError", None)
           ELSE Finish("return", "none", None)
        /\ UNCHANGED attempt

\* lines 229-235: when the failure is not raised the branch ends without a
\* return, so the for loop goes on to its next iteration (or to line 245)
ExecUnknown ==
    \E r \in Responses :
        /\ r.kind = "http" /\ ~IsTransientStatus(r.status) /\ r.status # 404
        /\ r.status # 200 /\ ~IsAuthStatus(r.status)
        /\ Exchange(r)
        /\ IF UnknownRaises
           THEN Finish("raise", "RuntimeError", None) /\ UNCHANGED attempt
           ELSE IF attempt + 1 <= Attempts(max_retries)
                THEN /\ attempt' = attempt + 1
                     /\ UNCHANGED <<epc, sleep_for, outcome, error, retval,
                                    session_state>>
                ELSE FinishFinal /\ UNCHANGED attempt

\* lines 237-243
ExecNetworkFailure ==
    \E r \in Responses :
        /\ r.kind = "neterr"
        /\ Exchange(r)
        /\ IF Exhausted(attempt, Attempts(max_retries))
           THEN IF NetworkExhaustedRaises
                THEN Finish("raise", "RuntimeError", None)
                ELSE FinishFinal
           ELSE GoSleep(RetryDelay)
        /\ UNCHANGED attempt

\* the sleep of line 198, 219 or 243 ends: next iteration of the for loop
ExecWake ==
    /\ epc = "sleep"
    /\ sleeps' = Append(sleeps, sleep_for)
    /\ sleep_for' = 0
    /\ attempt' = attempt + 1
    /\ epc' = "attempt"
    /\ UNCHANGED <<EXCEPTION_LOG_LEVEL, max_retries, retry_delay, method, body,
                   session_given, method_name, owns_session, session_state,
                   exchanges, last, all_transient, outcome, error, retval>>
    /\ UNCHANGED <<cvars, qvars>>

NextExec ==
    \/ ExecStart
    \/ ExecOk
    \/ ExecNotFound
    \/ ExecTransient
    \/ ExecRateLimited
    \/ ExecAuth
    \/ ExecUnknown
    \/ ExecNetworkFailure
    \/ ExecWake


\* ------------------------------------------------------------------------
\* Bounds of the collector's inputs: limits, offsets and totals are drawn
\* from multiples of Step
\* ------------------------------------------------------------------------
Step == 50
MaxTotalSteps == 7
MaxLimitSteps == 5
MaxOffsetSteps == 2
MaxParallel == 2
MaxDrift == 1

\* Bounds of the calls that start far below offset 0
MaxNegOffsetSteps == 3
MaxFarTotalSteps == 3

\* ------------------------------------------------------------------------
\* Program constants of request_looper_async
\* ------------------------------------------------------------------------
PAGE_SIZE_CAP == 100
DEFAULT_PAGE_SIZE == 100
DEFAULT_PARALLEL == 5

\* parallel_requests as setup and SoundchartsClient default it
SETUP_PARALLEL == 5
CLIENT_PARALLEL == 1

\* page size of the remote API when a request names no limit, and its cap
SERVER_PAGE_LIMIT == 100

\* ------------------------------------------------------------------------
\* Values
\* ------------------------------------------------------------------------
\* an optional value: Null is Python's None (or an absent key)
Null == {}
Some(x) == {x}
Val(o) == CHOOSE x \in o : TRUE

Min2(a, b) == IF a <= b THEN a ELSE b
Max2(a, b) == IF a >= b THEN a ELSE b
SetMin(S) == CHOOSE x \in S : \A y \in S : x <= y

\* A list of records of the remote collection is kept as a sequence of runs
\* <<lo, hi>>, each standing for the records at positions lo .. hi - 1.
RECURSIVE ItemCount(_)
ItemCount(runs) ==
    IF runs = <<>> THEN 0
    ELSE (runs[1][2] - runs[1][1]) + ItemCount(Tail(runs))

\* the slice runs[:n] for n >= 0
RECURSIVE Truncate(_, _)
Truncate(runs, n) ==
    IF runs = <<>> \/ n <= 0 THEN <<>>
    ELSE LET r == runs[1]
             sz == r[2] - r[1]
         IN IF sz <= n THEN <<r>> \o Truncate(Tail(runs), n - sz)
            ELSE << <<r[1], r[1] + n>> >>

\* list(range(a, b, s)) for s > 0
RECURSIVE PyRange(_, _, _)
PyRange(a, b, s) == IF a >= b THEN <<>> ELSE <<a>> \o PyRange(a + s, b, s)

EmptyPage == [total |-> Null, offset |-> Null, limit |-> Null, next |-> Null]
NoResult == [kind |-> "none", items |-> <<>>, page |-> EmptyPage]

\* ------------------------------------------------------------------------
\* The remote API: a collection of `total` records served in pages
\* ------------------------------------------------------------------------
\* lines 103-105 of request_wrapper_async: falsy parameters are not sent
QueryValue(o) == IF o = Null \/ Val(o) = 0 THEN Null ELSE o

ServerLimit(q) ==
    IF q.limit = Null THEN SERVER_PAGE_LIMIT
    ELSE Min2(Val(q.limit), SERVER_PAGE_LIMIT)

ServerOffset(q) == IF q.offset = Null THEN 0 ELSE Max2(Val(q.offset), 0)

\* the page the remote API serves for the parameters p of a request when
\* the collection holds `size` records
ServerItemsOf(p, size) ==
    LET q == [offset |-> QueryValue(p.offset), limit |-> QueryValue(p.limit)]
        lo == Min2(ServerOffset(q), size)
        hi == Min2(ServerOffset(q) + ServerLimit(q), size)
    IN IF lo < hi THEN << <<lo, hi>> >> ELSE <<>>

ServerPageOf(p, size) ==
    LET q == [offset |-> QueryValue(p.offset), limit |-> QueryValue(p.limit)]
        off == ServerOffset(q)
        lim == ServerLimit(q)
    IN [total |-> Some(size), offset |-> Some(off), limit |-> Some(lim),
        next |-> IF off + lim < size THEN Some(off + lim) ELSE Null]

\* the first request of a call sees `total` records
ServerItems(p) == ServerItemsOf(p, total)
ServerPage(p) == ServerPageOf(p, total)

\* the requests of the page tasks see the collection after it drifted
LaterItems(p) == ServerItemsOf(p, total + drift)
LaterPage(p) == ServerPageOf(p, total + drift)

\* ------------------------------------------------------------------------
\* Pure helpers of request_looper_async
\* ------------------------------------------------------------------------
\* lines 277-282
Limit == raw_limit

\* line 280
ParamsLimit ==
    IF raw_limit = Null THEN Null
    ELSE Some(Min2(Val(raw_limit), PAGE_SIZE_CAP))

\* line 284
Offset == caller_offset

\* a clamp that takes the smaller of the offset and 0
ParamsOffsetMin == Min2(Offset, 0)

\* line 285
ParamsOffset == Max2(Offset, 0)

\* the mapping the caller passes as params
CallerParams == [offset |-> Some(caller_offset), limit |-> raw_limit]

\* a function that works on the caller's mapping itself
CallerParamsNormalised(cp) ==
    [offset |-> Some(ParamsOffset), limit |-> ParamsLimit]

\* line 273: params.copy(), so that the pop of line 277 and the assignments
\* of lines 280 and 285 leave the caller's mapping as it was
CallerParamsAfter(cp) == cp

\* lines 273-285: the local mapping after the normalisation
NormalisedParams == [offset |-> Some(ParamsOffset), limit |-> ParamsLimit]

\* line 346: page_params is a copy, so that the assignments of lines 347-348
\* leave the mapping shared by the tasks as it was
ParamsAfterFetchPage(ps, off) == ps

\* the session argument of the calls of lines 291-296 and 350-355:
\* "shared" is the session of line 288, "None" would make
\* request_wrapper_async open a session of its own
FirstSession == "shared"
PageSession == "shared"

\* line 290
FirstParams == [offset |-> Some(ParamsOffset), limit |-> ParamsLimit]

\* lines 305-307
TotalEffective(ts) ==
    IF Limit # Null THEN Min2(ts, Val(Limit)) ELSE ts

\* a test that takes only a call without limit as complete
FetchedAllIfNoLimit(ts) == Limit = Null

\* line 313
FetchedAll(ts) == Limit = Null \/ Val(Limit) >= ts

\* line 329
PageSize == IF ParamsLimit = Null THEN DEFAULT_PAGE_SIZE ELSE Val(ParamsLimit)

\* a variant that forgets the starting offset
ExtraOffsetsFromZero(ts) == PyRange(PageSize, TotalEffective(ts), PageSize)

\* line 330
ExtraOffsets(ts) ==
    PyRange(Offset + PageSize, TotalEffective(ts), PageSize)

\* a test without the case of no offsets left
ShortCircuitsWhenCovered(its, ts) == ItemCount(its) >= TotalEffective(ts)

\* lines 315, 331: nothing is left to fetch after the first page
ShortCircuits(its, ts) ==
    IF ItemCount(its) >= TotalEffective(ts) THEN TRUE
    ELSE ExtraOffsets(ts) = <<>>

\* a truncation guarded by `if limit:` instead of `if limit is not None:`
TruncateToLimitIfTruthy(its) ==
    IF Limit # Null /\ Val(Limit) # 0 THEN Truncate(its, Val(Limit)) ELSE its

\* lines 316-317, 332-333, 408-409
TruncateToLimit(its) ==
    IF Limit # Null THEN Truncate(its, Val(Limit)) ELSE its

\* a page descriptor that keeps the total of the block it was copied from
FinalPageKeepsTotal(block, ts) ==
    IF FetchedAll(ts) THEN [block EXCEPT !.next = Null] ELSE block

\* lines 321-325, 336-339, 414-419
FinalPage(block, ts) ==
    LET p == [block EXCEPT !.total = Some(ts)]
    IN IF FetchedAll(ts) THEN [p EXCEPT !.next = Null] ELSE p

\* lines 414-422
MergedPage(block, ts, lpo) ==
    LET p == FinalPage(block, ts)
    IN [p EXCEPT !.offset = IF @ = Null THEN Some(lpo) ELSE @,
                 !.limit = IF @ = Null THEN Some(PageSize) ELSE @]

\* lines 345-348
PageParams(off) == [offset |-> Some(off), limit |-> Some(PageSize)]

\* lines 343-360: one task per offset; the tasks start in creation order and
\* the first max_parallel_requests of them get a permit of the semaphore
\* A task holds a permit of the semaphore from the moment `async with sem`
\* is entered until it is left (permit = TRUE).
NewTasks(extra) ==
    [i \in 1..Len(extra) |->
        [off |-> extra[i],
         state |-> IF i <= max_parallel_requests THEN "inflight" ELSE "waiting",
         permit |-> i <= max_parallel_requests,
         result |-> "none"]]

Pending(ts) == {i \in DOMAIN ts : ts[i].state \in {"waiting", "inflight"}}
Waiting(ts) == {i \in DOMAIN ts : ts[i].state = "waiting"}
InFlight(ts) == {i \in DOMAIN ts : ts[i].state = "inflight"}
Cancelling(ts) == {i \in DOMAIN ts : ts[i].state = "cancelling"}
PermitHolders(ts) == {i \in DOMAIN ts : ts[i].permit}

\* a semaphore whose released permit reaches no waiter
HandOverNone(ts) == ts

\* a semaphore that wakes every waiter at once
HandOverAll(ts) ==
    [i \in DOMAIN ts |->
        IF i \in Waiting(ts)
        THEN [ts[i] EXCEPT !.state = "inflight", !.permit = TRUE]
        ELSE ts[i]]

\* line 349, leaving `async with sem`: the permit goes to the first waiter
HandOver(ts) ==
    IF Waiting(ts) = {} THEN ts
    ELSE [ts EXCEPT ![SetMin(Waiting(ts))].state = "inflight",
                    ![SetMin(Waiting(ts))].permit = TRUE]

\* a cancellation that reaches only the tasks still waiting for a permit
CancelWaiting(ts) ==
    [i \in DOMAIN ts |->
        IF i \in Waiting(ts) THEN [ts[i] EXCEPT !.state = "cancelling"]
        ELSE ts[i]]

\* lines 377-379, 403-405: task.cancel() on every task that is not done
CancelPending(ts) ==
    [i \in DOMAIN ts |->
        IF i \in Pending(ts) THEN [ts[i] EXCEPT !.state = "cancelling"]
        ELSE ts[i]]

\* a test that lets the page that arrived last win
TakesLastPageArrived(off, block, lpo) == block # EmptyPage

\* lines 391-393
TakesLastPage(off, block, lpo) == off >= lpo /\ block # EmptyPage

\* What line 291 can give: an exception ("raise"), None ("null"), an empty
\* JSON body ("empty"), a JSON body without the key items ("noitems"), a
\* text body holding the word items
\* ("text", the fallback of lines 161-165) or a page of items ("page").
FirstFailures == {"raise", "text"}
FirstValues == {"null", "empty", "noitems", "page"}

\* a test that lets a body without items through
ReturnsUnmodifiedNullOnly(kind) == kind = "null"

\* a test that lets None through
ReturnsUnmodifiedItemlessOnly(kind) == kind = "noitems"

\* a test that takes an empty body for a page
ReturnsUnmodifiedNonEmpty(kind) == kind \in {"null", "noitems"}

\* line 298: `not results or "items" not in results`
ReturnsUnmodified(kind) == kind \in {"null", "empty", "noitems"}

\* line 301: results.get("items", [])
FirstItems(kind) == IF kind = "page" THEN ServerItems(FirstParams) ELSE <<>>

\* What a page task can give: a page of items ("ok"), a response without
\* items ("null"), an exception ("raise") or a text body holding the word
\* items ("text"), on which response.get of line 386 raises.
PageResults == {"ok", "null", "raise", "text"}

\* a loop that takes a response without items for a failed task
ErrorAtOrSkipped(res) ==
    IF res \in {"raise", "null"} THEN "await"
    ELSE IF res = "text" THEN "body"
    ELSE "nowhere"

\* where handling the result of a page task raises
ErrorAt(res) ==
    IF res = "raise" THEN "await"
    ELSE IF res = "text" THEN "body"
    ELSE "nowhere"

\* a loop without the try statement
CaughtNowhere(where) == FALSE

\* lines 367-369: the try statement covers `await task` only
Caught(where) == where = "await"

\* ------------------------------------------------------------------------
\* Steps of request_looper_async
\* ------------------------------------------------------------------------
CollectIdle ==
    /\ raw_limit = Null
    /\ caller_offset = 0
    /\ total = 0
    /\ drift = 0
    /\ PARALLEL_REQUESTS = SETUP_PARALLEL
    /\ max_parallel_requests = 1
    /\ cpc = "idle"
    /\ c_session = "absent"
    /\ dispatched = {}
    /\ items = <<>>
    /\ first_response = "none"
    /\ first_page = EmptyPage
    /\ total_server = 0
    /\ tasks = <<>>
    /\ completed = <<>>
    /\ consumed = 0
    /\ yielded = <<>>
    /\ last_page_offset = 0
    /\ last_page_block = EmptyPage
    /\ any_failure = FALSE
    /\ c_outcome = "none"
    /\ results = NoResult
    /\ caller_params = CallerParams
    /\ params = CallerParams
    /\ sessions_used = {}

ExecIdle ==
    /\ EXCEPTION_LOG_LEVEL = ERROR
    /\ max_retries = 0
    /\ retry_delay = RETRY_DELAY
    /\ method = "None"
    /\ body = "None"
    /\ session_given = TRUE
    /\ epc = "idle"
    /\ method_name = "unset"
    /\ owns_session = FALSE
    /\ session_state = "absent"
    /\ attempt = 0
    /\ exchanges = 0
    /\ sleep_for = 0
    /\ sleeps = <<>>
    /\ last = NoResponse
    /\ all_transient = TRUE
    /\ outcome = "none"
    /\ error = "none"
    /\ retval = None

CollectInit ==
    /\ raw_limit \in {Null} \cup {Some(k * Step) : k \in 0..MaxLimitSteps}
    /\ caller_offset \in {k * Step : k \in (-1)..MaxOffsetSteps}
    /\ total \in {k * Step : k \in 0..MaxTotalSteps}
    /\ drift \in {-(MaxDrift * Step), 0, MaxDrift * Step}
    /\ total + drift >= 0
    /\ PARALLEL_REQUESTS \in {CLIENT_PARALLEL, SETUP_PARALLEL}
    /\ max_parallel_requests \in (1..MaxParallel) \cup {DEFAULT_PARALLEL}
    /\ cpc = "start"
    /\ c_session = "absent"
    /\ dispatched = {}
    /\ items = <<>>
    /\ first_response = "none"
    /\ first_page = EmptyPage
    /\ total_server = 0
    /\ tasks = <<>>
    /\ completed = <<>>
    /\ consumed = 0
    /\ yielded = <<>>
    /\ last_page_offset = 0
    /\ last_page_block = EmptyPage
    /\ any_failure = FALSE
    /\ c_outcome = "none"
    /\ results = NoResult
    /\ caller_params = CallerParams
    /\ params = CallerParams
    /\ sessions_used = {}

\* calls from offset 0 against an unchanging collection, without a limit or
\* with the largest one
CollectInitSteady ==
    /\ CollectInit
    /\ raw_limit \in {Null, Some(MaxLimitSteps * Step)}
    /\ caller_offset = 0
    /\ drift = 0
    /\ PARALLEL_REQUESTS = SETUP_PARALLEL

\* calls that start below offset 0, against a small unchanging collection
CollectInitFar ==
    /\ raw_limit \in {Null} \cup {Some(k * Step) : k \in 1..MaxLimitSteps}
    /\ caller_offset \in {-(k * Step) : k \in 1..MaxNegOffsetSteps}
    /\ total \in {k * Step : k \in 0..MaxFarTotalSteps}
    /\ drift = 0
    /\ PARALLEL_REQUESTS = SETUP_PARALLEL
    /\ max_parallel_requests \in {1, DEFAULT_PARALLEL}
    /\ cpc = "start"
    /\ c_session = "absent"
    /\ dispatched = {}
    /\ items = <<>>
    /\ first_response = "none"
    /\ first_page = EmptyPage
    /\ total_server = 0
    /\ tasks = <<>>
    /\ completed = <<>>
    /\ consumed = 0
    /\ yielded = <<>>
    /\ last_page_offset = 0
    /\ last_page_block = EmptyPage
    /\ any_failure = FALSE
    /\ c_outcome = "none"
    /\ results = NoResult
    /\ caller_params = CallerParams
    /\ params = CallerParams
    /\ sessions_used = {}

\* leaving the `async with` of line 288 by return or by an exception
Leave(how, val) ==
    /\ cpc' = "done"
    /\ c_session' = "closed"
    /\ c_outcome' = how
    /\ results' = val

\* lines 273-296: normalise the parameters, open the session, ask for the
\* first page
CollectStart ==
    /\ cpc = "start"
    /\ cpc' = "first"
    /\ c_session' = "open"
    /\ dispatched' = {FirstParams}
    /\ caller_params' = CallerParamsAfter(caller_params)
    /\ params' = NormalisedParams
    /\ sessions_used' = {FirstSession}
    /\ UNCHANGED cinputs
    /\ UNCHANGED <<items, first_response, first_page, total_server, tasks,
                   completed, consumed, yielded, last_page_offset,
                   last_page_block, any_failure, c_outcome, results>>
    /\ UNCHANGED <<evars, qvars>>

\* line 291 raises, or line 301 raises on a text body: the exception leaves
\* request_looper_async
FirstRaises ==
    /\ cpc = "first"
    /\ first_response' \in FirstFailures
    /\ Leave("raise", NoResult)
    /\ any_failure' = TRUE
    /\ UNCHANGED cinputs
    /\ UNCHANGED <<caller_params, params, sessions_used>>
    /\ UNCHANGED <<dispatched, items, first_page, total_server, tasks,
                   completed, consumed, yielded, last_page_offset,
                   last_page_block>>
    /\ UNCHANGED <<evars, qvars>>

\* lines 298-299: a null (suppressed failure) or a body without items
FirstWithoutItems ==
    /\ cpc = "first"
    /\ \E k \in FirstValues :
          /\ ReturnsUnmodified(k)
          /\ first_response' = k
          /\ Leave("return", [NoResult EXCEPT !.kind = k])
    /\ any_failure' = TRUE
    /\ UNCHANGED cinputs
    /\ UNCHANGED <<caller_params, params, sessions_used>>
    /\ UNCHANGED <<dispatched, items, first_page, total_server, tasks,
                   completed, consumed, yielded, last_page_offset,
                   last_page_block>>
    /\ UNCHANGED <<evars, qvars>>

\* lines 301-341: the first page leaves nothing to fetch
FirstShortCircuit ==
    /\ cpc = "first"
    /\ \E k \in FirstValues, with_page \in BOOLEAN :
        LET its == FirstItems(k)
            fp == IF with_page THEN ServerPage(FirstParams) ELSE EmptyPage
            ts == IF fp.total # Null THEN Val(fp.total) ELSE ItemCount(its)
        IN /\ ~ReturnsUnmodified(k)
           /\ ShortCircuits(its, ts)
           /\ first_response' = k
           /\ items' = TruncateToLimit(its)
           /\ first_page' = fp
           /\ total_server' = ts
           /\ Leave("return", [kind |-> "envelope",
                               items |-> TruncateToLimit(its),
                               page |-> FinalPage(fp, ts)])
    /\ UNCHANGED cinputs
    /\ UNCHANGED <<caller_params, params, sessions_used>>
    /\ UNCHANGED <<dispatched, tasks, completed, consumed, yielded,
                   last_page_offset, last_page_block, any_failure>>
    /\ UNCHANGED <<evars, qvars>>

\* lines 301-364: the first page leaves pages to fetch; their tasks are
\* created and the first of them start their request
FirstFanOut ==
    /\ cpc = "first"
    /\ \E k \in FirstValues :
        LET its == FirstItems(k)
            fp == ServerPage(FirstParams)
            ts == Val(fp.total)
            nt == NewTasks(ExtraOffsets(ts))
        IN /\ ~ReturnsUnmodified(k)
           /\ ~ShortCircuits(its, ts)
           /\ first_response' = k
           /\ items' = its
           /\ first_page' = fp
           /\ total_server' = ts
           /\ tasks' = nt
           /\ dispatched' = dispatched \cup
                  {PageParams(nt[i].off) : i \in InFlight(nt)}
           /\ last_page_offset' = Offset
           /\ last_page_block' = fp
           /\ params' = ParamsAfterFetchPage(params, nt[Len(nt)].off)
           /\ sessions_used' = sessions_used \cup
                  {PageSession : i \in InFlight(nt)}
    /\ cpc' = "merge"
    /\ UNCHANGED cinputs
    /\ UNCHANGED caller_params
    /\ UNCHANGED <<c_session, completed, consumed, yielded, any_failure,
                   c_outcome, results>>
    /\ UNCHANGED <<evars, qvars>>

\* lines 345-356: the request of a page task resolves; the task ends and its
\* permit goes to a waiter, which starts its request
PageFinish ==
    /\ cpc = "merge"
    /\ \E i \in InFlight(tasks), res \in PageResults :
        LET done == [tasks EXCEPT ![i].state = "done", ![i].permit = FALSE,
                                  ![i].result = res]
            nt == HandOver(done)
        IN /\ tasks' = nt
           /\ completed' = Append(completed, i)
           /\ dispatched' = dispatched \cup
                  {PageParams(nt[j].off) : j \in InFlight(nt)}
           /\ any_failure' = (any_failure \/ res # "ok")
           /\ sessions_used' = sessions_used \cup
                  {PageSession : j \in InFlight(nt)}
    /\ UNCHANGED cinputs
    /\ UNCHANGED <<caller_params, params>>
    /\ UNCHANGED <<cpc, c_session, items, first_response, first_page,
                   total_server, consumed, yielded, last_page_offset,
                   last_page_block, c_outcome, results>>
    /\ UNCHANGED <<evars, qvars>>

\* lines 366-405: as_completed yields the next finished task and the loop
\* body handles it; when the loop ends, every task not done is cancelled.
\* An exception that no except clause catches leaves the function, and the
\* `async with` of line 288 closes the session on its way.
Merge ==
    /\ cpc = "merge"
    /\ completed # <<>>
    /\ LET i == Head(completed)
           res == tasks[i].result
           off == tasks[i].off
           block == LaterPage(PageParams(off))
           merged == items \o LaterItems(PageParams(off))
           last_one == consumed + 1 = Len(tasks)
           where == ErrorAt(res)
       IN /\ completed' = Tail(completed)
          /\ consumed' = consumed + 1
          /\ yielded' = Append(yielded, i)
          /\ items' = IF res = "ok" THEN merged ELSE items
          /\ IF res = "ok" /\ TakesLastPage(off, block, last_page_offset)
             THEN /\ last_page_offset' = off
                  /\ last_page_block' = block
             ELSE UNCHANGED <<last_page_offset, last_page_block>>
          /\ IF where # "nowhere" /\ ~Caught(where)
             THEN /\ Leave("raise", NoResult)
                  /\ UNCHANGED tasks
             ELSE /\ UNCHANGED <<c_session, c_outcome, results>>
                  /\ IF \/ where # "nowhere"
                        \/ res = "ok" /\ ItemCount(merged) >= TotalEffective(total_server)
                        \/ last_one
                     THEN /\ tasks' = CancelPending(tasks)
                          /\ cpc' = "gather"
                     ELSE UNCHANGED <<tasks, cpc>>
    /\ UNCHANGED cinputs
    /\ UNCHANGED <<caller_params, params, sessions_used>>
    /\ UNCHANGED <<dispatched, first_response, first_page, total_server,
                   any_failure>>
    /\ UNCHANGED <<evars, qvars>>

\* lines 381, 407: a cancelled task ends and leaves its `async with sem`;
\* every waiter was cancelled with it, so the permit goes to nobody
CancelDelivered ==
    /\ cpc = "gather"
    /\ \E i \in Cancelling(tasks) :
          tasks' = [tasks EXCEPT ![i].state = "cancelled",
                                 ![i].permit = FALSE]
    /\ UNCHANGED cinputs
    /\ UNCHANGED <<caller_params, params, sessions_used>>
    /\ UNCHANGED <<cpc, c_session, dispatched, items, first_response,
                   first_page, total_server, completed, consumed, yielded,
                   last_page_offset, last_page_block, any_failure,
                   c_outcome, results>>
    /\ UNCHANGED <<evars, qvars>>

\* lines 408-424: every cancelled task has ended; build the merged result
CollectReturn ==
    /\ cpc = "gather"
    /\ Cancelling(tasks) = {}
    /\ items' = TruncateToLimit(items)
    /\ Leave("return",
             [kind |-> "envelope",
              items |-> TruncateToLimit(items),
              page |-> MergedPage(last_page_block, total_server,
                                  last_page_offset)])
    /\ UNCHANGED cinputs
    /\ UNCHANGED <<caller_params, params, sessions_used>>
    /\ UNCHANGED <<dispatched, first_response, first_page, total_server,
                   tasks, completed, consumed, yielded, last_page_offset,
                   last_page_block, any_failure>>
    /\ UNCHANGED <<evars, qvars>>

NextCollect ==
    \/ CollectStart
    \/ FirstRaises
    \/ FirstWithoutItems
    \/ FirstShortCircuit
    \/ FirstFanOut
    \/ PageFinish
    \/ Merge
    \/ CancelDelivered
    \/ CollectReturn

\* ------------------------------------------------------------------------
\* The blocking facade
\* ------------------------------------------------------------------------
Facades == {"request_wrapper", "request_looper"}
Contexts == {"no_loop", "in_loop"}

\* Python values of a query parameter, by their literal
ParamKeys == {"k1", "k2"}
PyValues == {"None", "True", "False", "0", "7", "''", "'a'"}

\* how a call can end: by returning a value or by raising an error
NoOutcome == [how |-> "none", what |-> "none"]
Returns(v) == [how |-> "return", what |-> v]
Raises(e) == [how |-> "raise", what |-> e]
CoroOutcomes ==
    {Returns(v) : v \in {"None", "body"}}
        \cup {Raises(e) : e \in {"RuntimeError", "ValueError"}}

\* line 104: `not v`
Falsy(v) == v \in {"None", "False", "0", "''"}

\* line 106: isinstance(v, bool)
IsBool(v) == v \in {"True", "False"}

\* lines 106-109: the value put into params
Stringify(v) ==
    IF IsBool(v) THEN (IF v = "True" THEN "true" ELSE "false") ELSE v

\* lines 100-109: the query parameters of the outbound request
BuildParams(rp) ==
    [k \in {x \in DOMAIN rp : ~Falsy(rp[x])} |-> Stringify(rp[k])]

\* a test that never finds a running loop
LoopRunningNever(ctx) == FALSE

\* lines 432-435: asyncio.get_running_loop() raises RuntimeError when no
\* loop runs in the calling thread
LoopRunning(ctx) == ctx = "in_loop"

FacadeIdle ==
    /\ entry = "request_wrapper"
    /\ context = "no_loop"
    /\ raw_params = [k \in ParamKeys |-> "None"]
    /\ fpc = "idle"
    /\ coro = "created"
    /\ sent_params = Null
    /\ coro_result = NoOutcome
    /\ f_result = NoOutcome

\* lines 445-486: the facade creates the coroutine object and hands it to
\* _run_blocking
FacadeInit ==
    /\ entry \in Facades
    /\ context \in Contexts
    /\ raw_params \in [ParamKeys -> PyValues]
    /\ fpc = "call"
    /\ coro = "created"
    /\ sent_params = Null
    /\ coro_result = NoOutcome
    /\ f_result = NoOutcome

\* lines 432-442: a running loop makes _run_blocking raise, the coroutine is
\* never started
RunBlockingRejects ==
    /\ fpc = "call"
    /\ LoopRunning(context)
    /\ fpc' = "done"
    /\ f_result' = Raises("RuntimeError")
    /\ UNCHANGED <<entry, context, raw_params, coro, sent_params,
                   coro_result>>
    /\ UNCHANGED <<evars, cvars>>

\* lines 432-436: no loop runs, asyncio.run starts the coroutine
RunBlockingRuns ==
    /\ fpc = "call"
    /\ ~LoopRunning(context)
    /\ fpc' = "run"
    /\ coro' = "running"
    /\ UNCHANGED <<entry, context, raw_params, sent_params, coro_result,
                   f_result>>
    /\ UNCHANGED <<evars, cvars>>

\* lines 97-109 of request_wrapper_async: the query parameters are built
BuildQuery ==
    /\ fpc = "run"
    /\ fpc' = "built"
    /\ sent_params' = Some(BuildParams(raw_params))
    /\ UNCHANGED <<entry, context, raw_params, coro, coro_result, f_result>>
    /\ UNCHANGED <<evars, cvars>>

\* the coroutine returns or raises
CoroutineEnds ==
    /\ fpc = "built"
    /\ fpc' = "ended"
    /\ coro' = "finished"
    /\ coro_result' \in CoroOutcomes
    /\ UNCHANGED <<entry, context, raw_params, sent_params, f_result>>
    /\ UNCHANGED <<evars, cvars>>

\* line 436: asyncio.run gives what the coroutine gave
RunBlockingReturns ==
    /\ fpc = "ended"
    /\ fpc' = "done"
    /\ f_result' = coro_result
    /\ UNCHANGED <<entry, context, raw_params, coro, sent_params,
                   coro_result>>
    /\ UNCHANGED <<evars, cvars>>

NextFacade ==
    \/ RunBlockingRejects
    \/ RunBlockingRuns
    \/ BuildQuery
    \/ CoroutineEnds
    \/ RunBlockingReturns

InitExec == ExecInit /\ CollectIdle /\ FacadeIdle

SpecExec == InitExec /\ [][NextExec]_vars

InitCollect == CollectInit /\ ExecIdle /\ FacadeIdle

SpecCollect == InitCollect /\ [][NextCollect]_vars

InitCollectFar == CollectInitFar /\ ExecIdle /\ FacadeIdle

SpecCollectFar == InitCollectFar /\ [][NextCollect]_vars

\* The event loop runs whatever is ready, and every HTTP exchange and every
\* sleep a call waits for completes: a step of the call that stays possible
\* is taken.
InitCollectSteady == CollectInitSteady /\ ExecIdle /\ FacadeIdle

SpecCollectFair ==
    InitCollectSteady /\ [][NextCollect]_vars /\ WF_vars(NextCollect)

\* one call of either kind: request_wrapper_async on its own, or
\* request_looper_async
InitSession == InitExec \/ InitCollectSteady

NextSession == NextExec \/ NextCollect

SpecSession == InitSession /\ [][NextSession]_vars

InitFacade == FacadeInit /\ ExecIdle /\ CollectIdle

SpecFacade == InitFacade /\ [][NextFacade]_vars

\* ------------------------------------------------------------------------
\* Properties of request_wrapper_async (checked under SpecExec)
\* ------------------------------------------------------------------------
MethodAccepted == method_name \notin {"unset", "invalid"}

\* C1: one call performs at most max_retries + 1 exchanges, whatever mix of
\* 5xx, rate-limit and network-failure retries it goes through; a call that
\* reaches the attempt loop with max_retries = 0 makes exactly one exchange.
C1_RetryBudget ==
    /\ exchanges <= max_retries + 1
    /\ (epc = "done" /\ MethodAccepted) => exchanges >= 1
    /\ (epc = "done" /\ MethodAccepted /\ max_retries = 0) => exchanges = 1

C1_Witness ==
    /\ epc = "done"
    /\ max_retries >= 2
    /\ exchanges = max_retries + 1
    /\ last.kind = "neterr"
    /\ \E i \in 1..Len(sleeps) : sleeps[i] = retry_delay
    /\ \E i \in 1..Len(sleeps) : sleeps[i] # retry_delay

TransientExhausted ==
    /\ epc = "done"
    /\ all_transient
    /\ exchanges = max_retries + 1

\* C2 as stated: when every attempt got a transient response, the call ends
\* raising, whatever the severity threshold.
C2_AlwaysRaises == TransientExhausted => outcome = "raise"

\* C2 amended: when every attempt got a transient response, the call raises
\* when ERROR >= the severity threshold and returns null otherwise.
C2_RaisesPerThreshold ==
    TransientExhausted =>
        /\ (outcome = "raise") <=> (ERROR >= EXCEPTION_LOG_LEVEL)
        /\ (outcome # "raise") => (outcome = "return" /\ retval = None)

C2_Witness ==
    /\ TransientExhausted
    /\ max_retries >= 1
    /\ EXCEPTION_LOG_LEVEL = CRITICAL
    /\ outcome = "return"
    /\ retval = None

\* C3: after a network failure the call sleeps retry_delay and makes the
\* next attempt while attempts remain; a network failure on the last
\* attempt raises, whatever the severity threshold.
C3_NetworkFailure ==
    last.kind = "neterr" =>
        \/ /\ epc = "sleep"
           /\ sleep_for = retry_delay
           /\ attempt < max_retries + 1
        \/ /\ epc = "attempt"
           /\ Len(sleeps) >= 1
           /\ sleeps[Len(sleeps)] = retry_delay
           /\ exchanges = attempt - 1
           /\ attempt <= max_retries + 1
        \/ /\ epc = "done"
           /\ outcome = "raise"
           /\ error = "RuntimeError"
           /\ exchanges = max_retries + 1

C3_Witness ==
    /\ last.kind = "neterr"
    /\ epc = "done"
    /\ outcome = "raise"
    /\ EXCEPTION_LOG_LEVEL = CRITICAL
    /\ Len(sleeps) >= 1
    /\ sleeps[Len(sleeps)] = retry_delay

\* C4: a 404 ends the call on that exchange: it raises when WARNING >= the
\* severity threshold and returns null otherwise.
C4_NotFound ==
    (last.kind = "http" /\ last.status = 404) =>
        /\ epc = "done"
        /\ (outcome = "raise") <=> (WARNING >= EXCEPTION_LOG_LEVEL)
        /\ (outcome # "raise") => (outcome = "return" /\ retval = None)

C4_Witness ==
    /\ last.kind = "http" /\ last.status = 404
    /\ EXCEPTION_LOG_LEVEL > WARNING
    /\ outcome = "return"
    /\ retval = None
    /\ exchanges >= 2

\* C5: a 401, a 403, or a 429 whose message does not indicate the rate
\* limit ends the call on that exchange: it raises when ERROR >= the
\* severity threshold and returns null otherwise.
C5_AuthNotRetried ==
    (/\ last.kind = "http"
     /\ \/ last.status \in {401, 403}
        \/ last.status = 429 /\ ~last.ratemsg) =>
        /\ epc = "done"
        /\ (outcome = "raise") <=> (ERROR >= EXCEPTION_LOG_LEVEL)
        /\ (outcome # "raise") => (outcome = "return" /\ retval = None)

C5_Witness ==
    /\ last.kind = "http" /\ last.status = 403 /\ last.ratemsg
    /\ epc = "done"
    /\ EXCEPTION_LOG_LEVEL = CRITICAL
    /\ outcome = "return"
    /\ exchanges >= 2

\* C6: a response with a status other than 200, 404, 401, 403, 429, 502,
\* 503, 504 ends the call on that exchange: it raises when ERROR >= the
\* severity threshold and returns null otherwise.
C6_UnknownResolves ==
    (/\ last.kind = "http"
     /\ last.status \notin {200, 404, 401, 403, 429, 502, 503, 504}) =>
        /\ epc = "done"
        /\ (outcome = "raise") <=> (ERROR >= EXCEPTION_LOG_LEVEL)
        /\ (outcome # "raise") => (outcome = "return" /\ retval = None)

\* C7: a 200 ends the call returning that response's body, decoded, or
\* the raw text when decoding fails, however many attempts failed before.
C7_OkReturnsBody ==
    (last.kind = "http" /\ last.status = 200) =>
        /\ epc = "done"
        /\ outcome = "return"
        /\ error = "none"
        /\ retval.body = last.text
        /\ retval.kind = IF last.json THEN "json" ELSE "text"

C7_Witness ==
    /\ last.kind = "http" /\ last.status = 200 /\ ~last.json
    /\ epc = "done"
    /\ outcome = "return"
    /\ retval = [kind |-> "text", body |-> "b2"]
    /\ exchanges = max_retries + 1
    /\ Len(sleeps) >= 2

\* C8: the method is POST with a body and no override, GET with neither,
\* DELETE when the override is DELETE; any other override raises a
\* configuration error before any exchange and before a session is created.
C8_Method ==
    epc # "start" =>
        /\ (method = "None" /\ body = "payload") => method_name = "POST"
        /\ (method = "None" /\ body = "None") => method_name = "GET"
        /\ (method \in {"DELETE", "delete"}) => method_name = "DELETE"
        /\ (method \notin {"None", "DELETE", "delete"}) =>
              /\ epc = "done"
              /\ outcome = "raise"
              /\ error = "ValueError"
              /\ exchanges = 0
              /\ attempt = 0
              /\ ~owns_session
              /\ session_state = IF session_given THEN "open" ELSE "absent"

C8_Witness ==
    /\ epc = "done"
    /\ method = "GET"
    /\ ~session_given
    /\ session_state = "absent"
    /\ error = "ValueError"
    /\ exchanges = 0

\* ------------------------------------------------------------------------
\* Properties of request_looper_async (checked under SpecCollect)
\* ------------------------------------------------------------------------
\* the call returned a merged envelope, every request gave its page and the
\* remote collection did not change during the call
ReturnedUnfailed ==
    /\ cpc = "done"
    /\ c_outcome = "return"
    /\ results.kind = "envelope"
    /\ first_page # EmptyPage
    /\ ~any_failure
    /\ drift = 0

\* C9 as stated: with no caller limit and no page failure the merged result
\* holds as many items as the total reported by the first page.
C9_CountIsTotal ==
    (ReturnedUnfailed /\ raw_limit = Null) =>
        ItemCount(results.items) = total_server

\* C9 amended: with no caller limit, a starting offset o >= 0 and no page
\* failure the merged result holds total - o items (none when o exceeds the
\* total), which is the total when o = 0.
C9_CountIsTotalFromOffset ==
    (ReturnedUnfailed /\ raw_limit = Null /\ caller_offset >= 0) =>
        ItemCount(results.items) = Max2(total_server - caller_offset, 0)

C9_Witness ==
    /\ ReturnedUnfailed
    /\ raw_limit = Null
    /\ caller_offset > 0
    /\ Len(tasks) >= 2
    /\ consumed = Len(tasks)
    /\ ItemCount(results.items) = total_server - caller_offset

\* C10: with a caller limit L <= total, any starting offset from which L
\* records exist, and no page failure, the merged result holds exactly L
\* items.
C10_CountIsLimit ==
    (/\ ReturnedUnfailed
     /\ raw_limit # Null
     /\ caller_offset >= 0
     /\ caller_offset + Val(raw_limit) <= total_server) =>
        ItemCount(results.items) = Val(raw_limit)

\* the call returned a Result Envelope
ReturnedEnvelope ==
    /\ cpc = "done"
    /\ c_outcome = "return"
    /\ results.kind = "envelope"

\* C11: in every envelope returned against an unchanged collection, the
\* number of items exceeds neither the caller limit (when one was given) nor
\* page.total.
C11_ItemsBounded ==
    (ReturnedEnvelope /\ drift = 0) =>
        /\ raw_limit # Null => ItemCount(results.items) <= Val(raw_limit)
        /\ ItemCount(results.items) <= Val(results.page.total)

\* C12: every returned envelope has page.total equal to the total reported
\* by the first page response, whatever the caller limit and whatever total
\* the later pages report.
C12_TotalFromFirstPage ==
    (ReturnedEnvelope /\ first_page # EmptyPage) =>
        /\ results.page.total = first_page.total
        /\ results.page.total = Some(total)

C12_Witness ==
    /\ ReturnedEnvelope
    /\ raw_limit # Null
    /\ Val(raw_limit) < total
    /\ any_failure
    /\ last_page_block # first_page
    /\ last_page_block.total # first_page.total
    /\ results.page.total = Some(total)

C14_BoundIsConfigured ==
    max_parallel_requests = DEFAULT_PARALLEL =>
        Cardinality(PermitHolders(tasks)) <= PARALLEL_REQUESTS

\* C15: no page task exists and no request but the first is dispatched
\* while the first request is unresolved, nor ever after it raised or gave
\* a value without items.
C15_FirstPageFirst ==
    /\ first_response = "none" =>
           tasks = <<>> /\ dispatched \subseteq {FirstParams}
    /\ first_response \in FirstFailures \cup {"null", "empty", "noitems"} =>
           tasks = <<>> /\ dispatched = {FirstParams}

C15_Witness ==
    /\ cpc = "done"
    /\ first_response = "noitems"
    /\ raw_limit = Null
    /\ total > DEFAULT_PAGE_SIZE
    /\ dispatched = {FirstParams}

\* the loop of line 366 was handed a page task that raised
FailureObserved ==
    \E k \in 1..Len(yielded) : tasks[yielded[k]].result = "raise"

\* the items of the pages merged by the loop for the yielded tasks ys
RECURSIVE MergedItems(_)
MergedItems(ys) ==
    IF ys = <<>> THEN <<>>
    ELSE (IF tasks[Head(ys)].result = "ok"
          THEN LaterItems(PageParams(tasks[Head(ys)].off))
          ELSE <<>>) \o MergedItems(Tail(ys))

\* C16: once a page task raised, nothing more is merged, no task is left
\* pending, every cancelled task has ended when the call ends, and the
\* result holds the first page and the pages merged before, cut to the
\* caller limit.
C16_FailureStopsMerge ==
    FailureObserved =>
        /\ tasks[yielded[Len(yielded)]].result = "raise"
        /\ cpc \in {"gather", "done"}
        /\ Pending(tasks) = {}
        /\ cpc = "gather" =>
               items = FirstItems(first_response) \o MergedItems(yielded)
        /\ cpc = "done" =>
               /\ Cancelling(tasks) = {}
               /\ ReturnedEnvelope =>
                      results.items =
                          TruncateToLimit(FirstItems(first_response)
                                          \o MergedItems(yielded))

C16_Witness ==
    /\ FailureObserved
    /\ ReturnedEnvelope
    /\ Len(yielded) >= 2
    /\ \E i \in DOMAIN tasks : tasks[i].state = "cancelled"
    /\ ItemCount(results.items) > ItemCount(FirstItems(first_response))

\* C17 as stated: when a page task raised, the call ends by raising.
C17_FailurePropagates ==
    (FailureObserved /\ cpc = "done") => c_outcome = "raise"

\* C17 amended: when a page task raised, the call ends by returning the
\* partial envelope.
C17_FailureReturnsPartial ==
    (FailureObserved /\ cpc = "done") => ReturnedEnvelope

C17_Witness ==
    /\ FailureObserved
    /\ cpc = "done"
    /\ c_outcome = "return"
    /\ results.kind = "envelope"
    /\ \E i \in DOMAIN tasks : tasks[i].state = "cancelled"

\* C18: when the session is closed every page task is done, failed or
\* cancelled.
C18_TasksDoneBeforeClose ==
    c_session = "closed" =>
        \A i \in DOMAIN tasks : tasks[i].state \in {"done", "cancelled"}

\* the number of times the record at position x occurs in a list of items
RECURSIVE Occurrences(_, _)
Occurrences(runs, x) ==
    IF runs = <<>> THEN 0
    ELSE (IF runs[1][1] <= x /\ x < runs[1][2] THEN 1 ELSE 0)
         + Occurrences(Tail(runs), x)

\* equal as unordered collections
SameCollection(a, b) ==
    \A x \in 0..(total - 1) : Occurrences(a, x) = Occurrences(b, x)

\* the items a call collects when its pages arrive in the order of their
\* offsets: acc so far, ts the tasks still to arrive
RECURSIVE InOrderItems(_, _)
InOrderItems(acc, ts) ==
    IF ts = <<>> \/ ItemCount(acc) >= TotalEffective(total_server) THEN acc
    ELSE InOrderItems(acc \o ServerItems(PageParams(Head(ts).off)), Tail(ts))

\* C19: against an unchanged collection and without failures, a call with
\* a starting offset >= 0 returns the same unordered collection of items as
\* the call with the same parameters whose pages arrive in the order of
\* their offsets.
C19_SameItems ==
    (ReturnedUnfailed /\ caller_offset >= 0) =>
        SameCollection(results.items,
                       TruncateToLimit(InOrderItems(FirstItems(first_response),
                                                    tasks)))

\* C20: a call with limit = 0 creates no page task, dispatches nothing but
\* the first request, and returns no items with page.total the total
\* reported by the server.
C20_LimitZero ==
    raw_limit = Some(0) =>
        /\ tasks = <<>>
        /\ dispatched \subseteq {FirstParams}
        /\ ReturnedEnvelope =>
               /\ results.items = <<>>
               /\ first_page # EmptyPage => results.page.total = Some(total)

C20_Witness ==
    /\ raw_limit = Some(0)
    /\ ReturnedEnvelope
    /\ first_page # EmptyPage
    /\ ItemCount(FirstItems(first_response)) > 0
    /\ total > DEFAULT_PAGE_SIZE
    /\ results.items = <<>>
    /\ results.page.total = Some(total)

\* C21: a call whose offset is at or beyond the server total creates no
\* page task, dispatches nothing but the first request and returns no items.
C21_OffsetBeyondTotal ==
    caller_offset >= total =>
        /\ tasks = <<>>
        /\ dispatched \subseteq {FirstParams}
        /\ first_response = "page" =>
               /\ ReturnedEnvelope
               /\ results.items = <<>>

C21_Witness ==
    /\ caller_offset >= total
    /\ total > 0
    /\ raw_limit = Null
    /\ first_page # EmptyPage
    /\ ReturnedEnvelope
    /\ results.items = <<>>
    /\ dispatched = {FirstParams}

\* C23 as stated: when the first request resolves to a suppressed null, the
\* call returns an envelope with an empty items list.
C23_SuppressedGivesEmptyEnvelope ==
    (first_response = "null" /\ cpc = "done") =>
        /\ c_outcome = "return"
        /\ results.kind = "envelope"
        /\ results.items = <<>>

\* C23 amended: when the first request resolves to a suppressed null, the
\* call does not raise and returns that null as it is; no page task is
\* created.
C23_SuppressedGivesNull ==
    first_response = "null" =>
        /\ cpc = "done"
        /\ c_outcome = "return"
        /\ results = [NoResult EXCEPT !.kind = "null"]
        /\ tasks = <<>>

C23_Witness ==
    /\ first_response = "null"
    /\ cpc = "done"
    /\ c_outcome = "return"
    /\ results.kind = "null"
    /\ total > DEFAULT_PAGE_SIZE

\* C25: in a step that leaves a failed page task behind, no page task
\* begins its request (stated for calls with a starting offset >= 0).
C25_NoStartAfterFailure ==
    [][(/\ caller_offset >= 0
        /\ \E i \in DOMAIN tasks' : tasks'[i].result = "raise") =>
           InFlight(tasks') \subseteq InFlight(tasks)]_vars

\* C26: the request of every page task asks for at most effective_total
\* minus its offset items (stated for calls with a starting offset >= 0).
C26_PageRequestBounded ==
    caller_offset >= 0 =>
        \A i \in DOMAIN tasks :
            Val(PageParams(tasks[i].off).limit)
                <= TotalEffective(total_server) - tasks[i].off

\* C27: the page tasks are those of the offsets first_offset + page_size,
\* first_offset + 2 * page_size, ... below effective_total, where
\* first_offset is the offset sent with the first request.
C27_FanOutOffsets ==
    tasks # <<>> =>
        [i \in DOMAIN tasks |-> tasks[i].off]
            = PyRange(ParamsOffset + PageSize, TotalEffective(total_server),
                      PageSize)

\* C28: when the first page holds effective_total items or more, or no
\* offset is left, the call ends with the first request as its only one,
\* the first page cut to the caller limit as its items, and page.total the
\* server total.
C28_ShortCircuit ==
    (/\ first_response = "page"
     /\ IF ItemCount(FirstItems("page")) >= TotalEffective(total_server)
        THEN TRUE
        ELSE ExtraOffsets(total_server) = <<>>) =>
        /\ ReturnedEnvelope
        /\ tasks = <<>>
        /\ dispatched = {FirstParams}
        /\ results.items =
               (IF raw_limit = Null THEN FirstItems("page")
                ELSE Truncate(FirstItems("page"), Val(raw_limit)))
        /\ results.page.total = Some(total_server)

C28_Witness ==
    /\ ReturnedEnvelope
    /\ tasks = <<>>
    /\ raw_limit # Null
    /\ Val(raw_limit) > 0
    /\ Val(raw_limit) < total
    /\ first_page # EmptyPage
    /\ ItemCount(results.items) = Val(raw_limit)
    /\ results.page.total = Some(total)
    /\ results.page.next # Null

\* the page descriptor the result is built from
LastSeenPage == IF tasks = <<>> THEN first_page ELSE last_page_block

C30_NullNextMeansComplete ==
    (/\ ReturnedEnvelope
     /\ first_page # EmptyPage
     /\ drift = 0
     /\ caller_offset >= 0
     /\ FetchedAll(total_server)) =>
        \A x \in caller_offset..(total_server - 1) :
            Occurrences(results.items, x) >= 1

\* ------------------------------------------------------------------------
\* Properties of the blocking facade (checked under SpecFacade)
\* ------------------------------------------------------------------------
\* C22: called while an event loop runs, the facade raises RuntimeError and
\* the coroutine is never started (no query is built); called with no loop
\* running, it ends only after the coroutine has finished and with what the
\* coroutine gave.
C22_RunBlocking ==
    /\ context = "in_loop" =>
           /\ coro = "created"
           /\ sent_params = Null
           /\ fpc \in {"call", "done"}
           /\ fpc = "done" => f_result = Raises("RuntimeError")
    /\ (context = "no_loop" /\ fpc = "done") =>
           /\ coro = "finished"
           /\ sent_params # Null
           /\ f_result = coro_result
           /\ f_result # NoOutcome

C22_Witness ==
    /\ context = "in_loop"
    /\ fpc = "done"
    /\ f_result = Raises("RuntimeError")
    /\ coro = "created"

\* C24: exactly the parameters whose value is None are left out of the
\* query; True is sent as "true", False as "false", and every other value,
\* 0 included, is sent as it is.
C24_OnlyNullsDropped ==
    sent_params # Null =>
        \A k \in ParamKeys :
            /\ (k \in DOMAIN Val(sent_params)) <=> (raw_params[k] # "None")
            /\ raw_params[k] = "True" => Val(sent_params)[k] = "true"
            /\ raw_params[k] = "False" => Val(sent_params)[k] = "false"
            /\ raw_params[k] \notin {"None", "True", "False"} =>
                   Val(sent_params)[k] = raw_params[k]

\* ------------------------------------------------------------------------
\* Further properties of request_wrapper_async (checked under SpecExec)
\* ------------------------------------------------------------------------
\* the delay the rate-limit branch must sleep after response r
ResetHintDelay(r) == IF r.has_reset THEN r.reset + 1 ELSE 1

\* C31: after a rate-limited 429 with attempts remaining the call sleeps
\* the reset hint of the response plus one second, or one second when the
\* response has no hint, never the configured retry_delay, and the next
\* attempt starts only when that sleep is over.
C31_RateLimitSleep ==
    (last.kind = "http" /\ last.status = 429 /\ last.ratemsg) =>
        \/ /\ epc = "sleep"
           /\ sleep_for = ResetHintDelay(last)
           /\ sleep_for # retry_delay
           /\ exchanges = attempt
           /\ attempt < max_retries + 1
        \/ /\ epc = "attempt"
           /\ Len(sleeps) >= 1
           /\ sleeps[Len(sleeps)] = ResetHintDelay(last)
           /\ sleeps[Len(sleeps)] # retry_delay
           /\ exchanges = attempt - 1
        \/ /\ epc = "done"
           /\ exchanges = max_retries + 1

C31_Witness ==
    /\ epc = "attempt"
    /\ last.status = 429 /\ last.ratemsg /\ last.has_reset
    /\ last.reset = MaxReset
    /\ Len(sleeps) = 2
    /\ sleeps[1] = 1
    /\ sleeps[2] = MaxReset + 1

\* ------------------------------------------------------------------------
\* Further properties of request_looper_async (checked under SpecCollect)
\* ------------------------------------------------------------------------
\* the offsets of the page tasks whose page was merged so far
MergedOffsets ==
    {tasks[yielded[k]].off :
        k \in {j \in 1..Len(yielded) : tasks[yielded[j]].result = "ok"}}

HighestMerged == CHOOSE x \in MergedOffsets : \A y \in MergedOffsets : y <= x

\* C32: at every moment of the merge the tracked descriptor is the one of
\* the merged page with the highest offset (the first page while none is
\* merged), whatever the arrival order, and the returned page carries the
\* offset and limit of that descriptor.
C32_LastPageIsHighest ==
    tasks # <<>> =>
        /\ IF MergedOffsets = {}
           THEN /\ last_page_offset = Offset
                /\ last_page_block = first_page
           ELSE /\ last_page_offset = HighestMerged
                /\ last_page_block = LaterPage(PageParams(HighestMerged))
        /\ (cpc = "done" /\ c_outcome = "return") =>
              /\ results.page.offset = last_page_block.offset
              /\ results.page.limit = last_page_block.limit

C32_Witness ==
    /\ cpc = "done"
    /\ c_outcome = "return"
    /\ Len(yielded) >= 2
    /\ tasks[yielded[1]].result = "ok"
    /\ tasks[yielded[2]].result = "ok"
    /\ tasks[yielded[2]].off < tasks[yielded[1]].off
    /\ results.page.offset = Some(tasks[yielded[1]].off)

\* C33: when the first response is null, empty or has no items field, the
\* call returns that value as it is (no items, no page block) and no page
\* task is created nor any further request dispatched.
C33_FirstReturnedUnmodified ==
    first_response \in {"null", "empty", "noitems"} =>
        /\ cpc = "done"
        /\ c_outcome = "return"
        /\ results = [kind |-> first_response, items |-> <<>>,
                      page |-> EmptyPage]
        /\ tasks = <<>>
        /\ dispatched = {FirstParams}

C33_Witness ==
    /\ first_response = "empty"
    /\ cpc = "done"
    /\ results.kind = "empty"
    /\ raw_limit = Some(0)
    /\ total > DEFAULT_PAGE_SIZE

\* C34: every request of a call, the first and those of the page tasks,
\* is handed a limit of at most 100 and an offset that is not negative.
C34_RequestsClamped ==
    \A p \in dispatched :
        /\ p.limit # Null => Val(p.limit) <= PAGE_SIZE_CAP
        /\ p.offset # Null => Val(p.offset) >= 0

\* C36: against an unchanged collection and without failures, a call with
\* a starting offset o >= 0 that returns n items returns the records at the
\* positions o .. o + n - 1, each once, whatever the arrival order.
C36_ContiguousSlice ==
    (ReturnedUnfailed /\ caller_offset >= 0) =>
        SameCollection(results.items,
                       << <<caller_offset,
                            caller_offset + ItemCount(results.items)>> >>)

\* C37: against an unchanged collection no record occurs more than once in
\* the items of a returned envelope, whatever the caller's offset.
C37_NoDuplicates ==
    (ReturnedEnvelope /\ drift = 0) =>
        \A x \in 0..(total - 1) : Occurrences(results.items, x) <= 1

\* the loop of line 366 was handed a page task that gave no page of items,
\* and no page task raised or gave a text body
SkippedOnly ==
    /\ \E k \in 1..Len(yielded) : tasks[yielded[k]].result = "null"
    /\ \A i \in DOMAIN tasks : tasks[i].result \in {"none", "ok", "null"}

\* C38: when page tasks resolve to a response without items and none
\* raises, no task is cancelled, the loop goes on to the remaining tasks,
\* and the call returns an envelope with the items of the first page and
\* of every page task that gave a page.
C38_SkipsNullPage ==
    SkippedOnly =>
        /\ \A i \in DOMAIN tasks : tasks[i].state \notin {"cancelling", "cancelled"}
        /\ cpc = "gather" => consumed = Len(tasks)
        /\ cpc = "done" =>
              /\ ReturnedEnvelope
              /\ consumed = Len(tasks)
              /\ results.items =
                     TruncateToLimit(FirstItems(first_response)
                                     \o MergedItems(yielded))

C38_Witness ==
    /\ SkippedOnly
    /\ ReturnedEnvelope
    /\ Len(tasks) >= 3
    /\ tasks[yielded[1]].result = "null"
    /\ tasks[yielded[2]].result = "ok"
    /\ tasks[yielded[3]].result = "ok"
    /\ ItemCount(results.items) = total - DEFAULT_PAGE_SIZE

C40_CallerParamsKept ==
    /\ caller_params = [offset |-> Some(caller_offset), limit |-> raw_limit]
    /\ cpc \in {"first", "merge", "gather", "done"} =>
           params = [offset |-> Some(Max2(caller_offset, 0)),
                     limit |-> IF raw_limit = Null THEN Null
                               ELSE Some(Min2(Val(raw_limit), PAGE_SIZE_CAP))]
    /\ \A i \in DOMAIN tasks :
           tasks[i].state \in {"inflight", "done"} =>
               [offset |-> Some(tasks[i].off), limit |-> Some(PageSize)]
                   \in dispatched
    /\ Cardinality(dispatched) <= 1 + Len(tasks)

C40_Witness ==
    /\ cpc = "done"
    /\ c_outcome = "raise"
    /\ Len(tasks) >= 2
    /\ raw_limit # Null
    /\ Val(raw_limit) > PAGE_SIZE_CAP
    /\ caller_offset < 0
    /\ caller_params.limit = raw_limit
    /\ caller_params.offset = Some(caller_offset)
    /\ params # caller_params

\* ------------------------------------------------------------------------
\* Properties of the sessions (checked under SpecSession)
\* ------------------------------------------------------------------------
\* C35: request_wrapper_async owns a session exactly when it was given
\* none and got as far as creating one, has closed it whenever the call is
\* over, and leaves a session of its caller open; request_looper_async
\* hands the session it opened, and no other, to every request it makes.
C35_SessionOwnership ==
    /\ owns_session <=>
           (~session_given /\ epc \in {"attempt", "sleep", "done"}
            /\ MethodAccepted)
    /\ (epc = "done" /\ owns_session) => session_state = "closed"
    /\ (epc = "done" /\ ~owns_session /\ ~session_given) =>
           (session_state = "absent" /\ exchanges = 0)
    /\ (epc # "idle" /\ session_given) => session_state = "open"
    /\ sessions_used \subseteq {"shared"}
    /\ Cardinality(sessions_used) = (IF dispatched = {} THEN 0 ELSE 1)
    /\ dispatched # {} => c_session # "absent"

C35_Witness ==
    /\ epc = "done"
    /\ ~session_given
    /\ owns_session
    /\ outcome = "raise"
    /\ exchanges = max_retries + 1
    /\ max_retries >= 1
    /\ session_state = "closed"

====
